---- MODULE Spec2Model ----
(***************************************************************************)
(* Model of OrderedBuffer<T, N> (src/src/lib.rs): a fixed-capacity reorder *)
(* buffer whose insert classifies an arriving (sequence number, item) and  *)
(* whose iterator drains the contiguous run that starts at read_pos.       *)
(***************************************************************************)
EXTENDS Integers, Sequences, FiniteSets, TLC

N == 3          \* capacity, the const generic N of OrderedBuffer<T, N>
MaxSeq == 7     \* the caller inserts sequence numbers 0..MaxSeq (and U64Max)
U64Bits == 4    \* width the model gives u64 (scaled down from 64)

Pow2(b) == 2 ^ b
U64Mod == Pow2(U64Bits)
U64Max == U64Mod - 1

Items == {"a", "b"}                    \* payloads (the type parameter T)
SeqInputs == (0 .. MaxSeq) \cup {U64Max}   \* arguments the caller passes
AllSeqs == 0 .. U64Max                     \* every u64

VARIABLES
    items,                  \* OrderedBuffer.items: slot index -> None | (u64, T)
    read_pos,               \* OrderedBuffer.read_pos
    next_sequence_number,   \* OrderedBuffer.next_sequence_number
    iter,                   \* "live" while an OrderedBufferIterator borrows the buffer
    target,                 \* build: width of usize, overflow checks on or off
    panicked,               \* an operation panicked
    last,                   \* the last call: operation, arguments, what it returned
    yielded,                \* sequence numbers next() yielded since new()/reset()
    snap,                   \* the latest insert call, when it returned Inserted
    run,                    \* what the iterator of that insert has yielded so far
    discarded               \* the latest sequence number the loop of Drop took and
                            \* dropped since new()/reset(), -1 when there is none

vars == <<items, read_pos, next_sequence_number, iter, target, panicked,
          last, yielded, snap, run, discarded>>

Slots == 0 .. (N - 1)

\* Option<(u64, T)>
None == <<>>
Some(q, x) == <<q, x>>
IsSome(c) == c # None
SeqOf(c) == c[1]
ItemOf(c) == c[2]

\* the three fields of OrderedBuffer as one value
Buf(its, rp, nsn) == [items |-> its, read_pos |-> rp, next_sequence_number |-> nsn]
Cur == Buf(items, read_pos, next_sequence_number)

\* `x as usize`: truncation to the width of usize
AsUsize(x, t) == x % Pow2(t.usize_bits)

\* usize addition: wraps without overflow checks
UsizeAdd(a, b, t) == (a + b) % Pow2(t.usize_bits)
UsizeAddOverflows(a, b, t) == a + b >= Pow2(t.usize_bits)

\* u64 addition
U64Add(a, b) == (a + b) % U64Mod
U64AddOverflows(a, b) == a + b >= U64Mod

\* OrderedBuffer::new
NewBuffer == Buf([i \in Slots |-> None], 0, 0)

\* variants of the definitions below, each with one slip of the kind the code
\* could contain; the properties are checked to tell them from the code
OccupiedResult_EqualIsStale(s, e) == IF s <= e THEN "Expired" ELSE "FullBuffer"
TooFarAhead_Strict(s, nsn, t) == AsUsize(s, t) > UsizeAdd(AsUsize(nsn, t), N, t)
AlreadyDelivered_Never(s, nsn) == FALSE
EmptyResult_NoWindow(s, nsn, t) == IF s < nsn THEN "Duplicate" ELSE "Inserted"
AdvanceReadPos_Stuck(rp) == rp
AdvanceSeq_Same(q) == q % U64Mod
AlreadyDelivered_Inclusive(s, nsn) == s <= nsn
OccupiedResult_NoFull(s, e) == IF s < e THEN "Expired" ELSE "Duplicate"
ResetBuffer_KeepReadPos(b) == Buf([i \in Slots |-> None], b.read_pos, 0)
ResetBuffer_KeepItems(b) == Buf(b.items, 0, 0)

\* insert, line 53: let new_slot = new_sequence_number as usize % N
NewSlot(s, t) == AsUsize(s, t) % N

\* insert, lines 57-65: the slot is occupied by existing sequence number e
OccupiedResult(s, e) ==
    IF s < e THEN "Expired"
    ELSE IF s = e THEN "Duplicate"
    ELSE "FullBuffer"

\* insert, line 68: new_sequence_number as usize >= next_sequence_number as usize + N
TooFarAhead(s, nsn, t) == AsUsize(s, t) >= UsizeAdd(AsUsize(nsn, t), N, t)

\* insert, line 74: new_sequence_number < self.next_sequence_number
AlreadyDelivered(s, nsn) == s < nsn

\* insert, lines 67-83: the slot is empty
EmptyResult(s, nsn, t) ==
    IF t.overflow_checks /\ UsizeAddOverflows(AsUsize(nsn, t), N, t) THEN "Panic"
    ELSE IF TooFarAhead(s, nsn, t) THEN "FullBuffer"
    ELSE IF AlreadyDelivered(s, nsn) THEN "Duplicate"
    ELSE "Inserted"

\* insert, lines 52-85: the InsertResult variant
InsertResultOf(b, s, t) ==
    LET c == b.items[NewSlot(s, t)] IN
    IF IsSome(c) THEN OccupiedResult(s, SeqOf(c))
    ELSE EmptyResult(s, b.next_sequence_number, t)

\* the store goes to the slot at read_pos
Store_AtReadPos(b, s, x, t) == [b EXCEPT !.items[b.read_pos] = Some(s, x)]

\* insert, line 80: self.items[new_slot] = Some((new_sequence_number, item))
Store(b, s, x, t) == [b EXCEPT !.items[NewSlot(s, t)] = Some(s, x)]

\* the store moved ahead of the window checks
InsertBuffer_StoreFirst(b, s, x, t) ==
    IF IsSome(b.items[NewSlot(s, t)]) THEN b ELSE Store(b, s, x, t)

\* a newer arrival replaces the older occupant of its slot
InsertBuffer_Evicts(b, s, x, t) ==
    LET c == b.items[NewSlot(s, t)] IN
    IF InsertResultOf(b, s, t) = "Inserted" \/ (IsSome(c) /\ SeqOf(c) < s)
    THEN Store(b, s, x, t) ELSE b

\* insert, lines 52-85: the buffer after the call
InsertBuffer(b, s, x, t) ==
    IF InsertResultOf(b, s, t) = "Inserted" THEN Store(b, s, x, t) ELSE b

\* OrderedBufferIterator::next, lines 116-123: does it yield
NextYields(b) == IsSome(b.items[b.read_pos])

\* next, line 119: self.buffer.read_pos = (self.buffer.read_pos + 1) % N
AdvanceReadPos(rp) == (rp + 1) % N

\* next, line 120: self.buffer.next_sequence_number = sequence_number + 1
AdvanceSeq(q) == U64Add(q, 1)

\* the slot read with as_ref() instead of take(): it stays occupied
NextBuffer_KeepsSlot(b) ==
    [items |-> b.items,
     read_pos |-> AdvanceReadPos(b.read_pos),
     next_sequence_number |-> AdvanceSeq(SeqOf(b.items[b.read_pos]))]

\* next, lines 116-123: the buffer after a yielding call
NextBuffer(b) ==
    LET c == b.items[b.read_pos] IN
    [items |-> [b.items EXCEPT ![b.read_pos] = None],
     read_pos |-> AdvanceReadPos(b.read_pos),
     next_sequence_number |-> AdvanceSeq(SeqOf(c))]

\* next, line 120 under overflow checks: sequence_number + 1 panics after the
\* slot was taken and read_pos advanced
NextPanics(b, t) ==
    NextYields(b) /\ t.overflow_checks /\ U64AddOverflows(SeqOf(b.items[b.read_pos]), 1)

NextPanicBuffer(b) ==
    [b EXCEPT !.items[b.read_pos] = None, !.read_pos = AdvanceReadPos(b.read_pos)]

\* the loop written as `if let Some(item) = self.next()`: it takes one item
DropLoop_OneStep(b, t) ==
    IF ~NextYields(b) THEN [buffer |-> b, yields |-> <<>>, panics |-> FALSE]
    ELSE IF NextPanics(b, t)
    THEN [buffer |-> NextPanicBuffer(b), yields |-> <<>>, panics |-> TRUE]
    ELSE [buffer |-> NextBuffer(b), yields |-> <<b.items[b.read_pos]>>, panics |-> FALSE]

\* Drop for OrderedBufferIterator, lines 103-110: for item in self { drop(item) }
\* the buffer the loop leaves, the cells it takes in order, whether it panics
RECURSIVE DropLoop(_, _)
DropLoop(b, t) ==
    IF ~NextYields(b) THEN [buffer |-> b, yields |-> <<>>, panics |-> FALSE]
    ELSE IF NextPanics(b, t)
    THEN [buffer |-> NextPanicBuffer(b), yields |-> <<>>, panics |-> TRUE]
    ELSE [DropLoop(NextBuffer(b), t) EXCEPT !.yields = <<b.items[b.read_pos]>> \o @]

DropYields(b, t) == DropLoop(b, t).yields
DropBuffer(b, t) == DropLoop(b, t).buffer
DropPanics(b, t) == DropLoop(b, t).panics

\* OrderedBuffer::reset, lines 88-92
ResetBuffer(b) == Buf([i \in Slots |-> None], 0, 0)

SeqsOf(cells) == [i \in 1 .. Len(cells) |-> SeqOf(cells[i])]

\* a call record (for a drop, seq is the number of items its loop took); repeat
\* marks an insert whose arguments are those of the insert call before it,
\* which returned Inserted
Call(op, s, x, r, b, rpt) ==
    [op |-> op, seq |-> s, item |-> x, result |-> r, before |-> b, repeat |-> rpt]
NoCall == Call("new", 0, "a", "none", NewBuffer, FALSE)

\* the latest insert call did not return Inserted (or there was none)
NoSnap == [seq |-> 0, item |-> "a", result |-> "none", after |-> NewBuffer]

\* a 64-bit target: usize is as wide as u64
Target64 == [usize_bits |-> U64Bits, overflow_checks |-> FALSE]

\* a target whose usize is narrower than u64 (a 32-bit target, scaled down)
TargetNarrow == [usize_bits |-> U64Bits - 1, overflow_checks |-> FALSE]

\* the build with overflow checks (debug) and without (release)
Builds(t) == {t, [t EXCEPT !.overflow_checks = TRUE]}

\* the state new() returns, on one of the targets ts
Fresh(ts) ==
    /\ items = NewBuffer.items
    /\ read_pos = NewBuffer.read_pos
    /\ next_sequence_number = NewBuffer.next_sequence_number
    /\ iter = "none"
    /\ target \in ts
    /\ panicked = FALSE
    /\ last = NoCall
    /\ yielded = <<>>
    /\ snap = NoSnap
    /\ run = <<>>
    /\ discarded = -1

Init == Fresh(Builds(Target64))

SetBuffer(b) ==
    /\ items' = b.items
    /\ read_pos' = b.read_pos
    /\ next_sequence_number' = b.next_sequence_number

\* buffer.insert(s, x); the buffer is not borrowed by an iterator
Insert(s, x) ==
    /\ iter = "none" /\ ~panicked
    /\ LET r == InsertResultOf(Cur, s, target)
           b == InsertBuffer(Cur, s, x, target) IN
       /\ SetBuffer(b)
       /\ iter' = IF r = "Inserted" THEN "live" ELSE "none"
       /\ panicked' = (r = "Panic")
       /\ last' = Call("insert", s, x, r, Cur,
                        snap.result = "Inserted" /\ snap.seq = s /\ snap.item = x)
       /\ snap' = IF r = "Inserted"
                  THEN [seq |-> s, item |-> x, result |-> r, after |-> b]
                  ELSE NoSnap
       /\ run' = <<>>
    /\ UNCHANGED <<target, yielded, discarded>>

\* iterator.next() called by the holder of InsertResult::Inserted
Next_ ==
    /\ iter = "live" /\ ~panicked
    /\ IF NextPanics(Cur, target)
       THEN /\ SetBuffer(NextPanicBuffer(Cur))
            /\ panicked' = TRUE
            /\ last' = Call("next", 0, "a", "Panic", Cur, FALSE)
            /\ UNCHANGED <<yielded, run>>
       ELSE IF NextYields(Cur)
       THEN LET c == items[read_pos] IN
            /\ SetBuffer(NextBuffer(Cur))
            /\ last' = Call("next", SeqOf(c), ItemOf(c), "Some", Cur, FALSE)
            /\ yielded' = Append(yielded, SeqOf(c))
            /\ run' = Append(run, c)
            /\ UNCHANGED panicked
       ELSE /\ last' = Call("next", 0, "a", "None", Cur, FALSE)
            /\ UNCHANGED <<items, read_pos, next_sequence_number, yielded, run, panicked>>
    /\ UNCHANGED <<iter, target, snap, discarded>>

\* the iterator goes out of scope: Drop exhausts it
Drop ==
    /\ iter = "live" /\ ~panicked
    /\ LET ys == DropYields(Cur, target) IN
       /\ SetBuffer(DropBuffer(Cur, target))
       /\ panicked' = DropPanics(Cur, target)
       /\ yielded' = yielded \o SeqsOf(ys)
       /\ run' = run \o ys
       /\ discarded' = IF ys = <<>> THEN discarded ELSE SeqOf(ys[Len(ys)])
       /\ last' = Call("drop", Len(ys), "a",
                        IF DropPanics(Cur, target) THEN "Panic" ELSE "None", Cur, FALSE)
    /\ iter' = "none"
    /\ UNCHANGED <<target, snap>>

\* buffer.reset(); the buffer is not borrowed by an iterator
Reset ==
    /\ iter = "none" /\ ~panicked
    /\ SetBuffer(ResetBuffer(Cur))
    /\ last' = Call("reset", 0, "a", "none", Cur, FALSE)
    /\ yielded' = <<>>
    /\ snap' = NoSnap
    /\ run' = <<>>
    /\ discarded' = -1
    /\ UNCHANGED <<iter, target, panicked>>

Next ==
    \/ \E s \in SeqInputs, x \in Items : Insert(s, x)
    \/ Next_
    \/ Drop
    \/ Reset

Spec == Init /\ [][Next]_vars

\* the caller passes any u64
NextWide ==
    \/ \E s \in AllSeqs, x \in Items : Insert(s, x)
    \/ Next_
    \/ Drop
    \/ Reset

\* 64-bit target, every u64 as argument: next_sequence_number reaches u64::MAX
SpecWide == Init /\ [][NextWide]_vars

\* arguments up to the first ones usize cannot hold, until more than N items
\* were yielded
NarrowInputs == 0 .. (Pow2(TargetNarrow.usize_bits) + N)
NextNarrow ==
    \/ \E s \in NarrowInputs, x \in Items : Len(yielded) <= N /\ Insert(s, x)
    \/ Next_
    \/ Drop
    \/ Reset

\* a caller that receives the sequence numbers 0 .. MaxSeq in any order, any
\* number of times, and never resets the buffer
NextLive ==
    \/ \E s \in 0 .. MaxSeq : Insert(s, "a")
    \/ Next_
    \/ Drop

\* the caller inserts the sequence number the buffer waits for
InsertExpected ==
    next_sequence_number <= MaxSeq /\ Insert(next_sequence_number, "a")

\* every sequence number is inserted at the latest while the buffer waits for
\* it, and the iterator an insert returns is released
SpecLive == Init /\ [][NextLive]_vars /\ WF_vars(InsertExpected) /\ WF_vars(Drop)

\* a target with a narrow usize
InitNarrow == Fresh(Builds(TargetNarrow))
SpecNarrow == InitNarrow /\ [][NextNarrow]_vars

----------------------------------------------------------------------------
\* Properties

Occupied(b) == {i \in DOMAIN b.items : IsSome(b.items[i])}
Resident(b, q) == \E i \in Occupied(b) : SeqOf(b.items[i]) = q
CellOf(b, q) == b.items[CHOOSE i \in Occupied(b) : SeqOf(b.items[i]) = q]

FirstGap(b) ==
    CHOOSE m \in b.next_sequence_number .. (b.next_sequence_number + Cardinality(Occupied(b))) :
        /\ ~Resident(b, m)
        /\ \A q \in b.next_sequence_number .. (m - 1) : Resident(b, q)

\* the cells with sequence numbers k .. m-1 of b, in that order
RunOf(b) ==
    [j \in 1 .. (FirstGap(b) - b.next_sequence_number) |->
        CellOf(b, b.next_sequence_number + j - 1)]

\* the iterator of the latest insert returned None, to the caller or in drop
Exhausted ==
    /\ snap.result = "Inserted"
    /\ last.op \in {"next", "drop"} /\ last.result = "None"

\* C2 (maximal-run drain): the exhausted iterator of an insert that returned
\* Inserted has yielded exactly the cells k .. m-1 of the buffer as insert left
\* it, k the next_sequence_number before the call and m the first sequence
\* number >= k not resident then, and next_sequence_number is m afterwards.
C2_MaximalRun ==
    Exhausted =>
        /\ run = RunOf(snap.after)
        /\ next_sequence_number = FirstGap(snap.after)

\* a run of at least two items, the inserted one first, was drained
C2_Witness ==
    /\ Exhausted
    /\ Len(run) >= 2
    /\ SeqOf(run[1]) = snap.seq
    /\ snap.seq > 0

\* C3 (capacity law, upper edge): insert(k + N, _) with next_sequence_number = k
\* returns FullBuffer.
C3_UpperEdge ==
    (last.op = "insert" /\ last.seq = last.before.next_sequence_number + N)
        => last.result = "FullBuffer"

C3_Witness ==
    /\ last.op = "insert"
    /\ last.seq = last.before.next_sequence_number + N
    /\ last.before.next_sequence_number > 0
    /\ Occupied(last.before) # {}
    /\ last.result = "FullBuffer"

\* C4 (capacity law, lower edge): insert(k - 1, _) with next_sequence_number
\* = k > 0 returns Duplicate, whatever the occupancy of the slots.
C4_LowerEdge ==
    (/\ last.op = "insert"
     /\ last.before.next_sequence_number > 0
     /\ last.seq = last.before.next_sequence_number - 1)
        => last.result = "Duplicate"

\* C5 (Expired is unreachable): no insert call returns Expired.
C5_NeverExpired == ~(last.op = "insert" /\ last.result = "Expired")

Rejections == {"Duplicate", "Expired", "FullBuffer"}

\* C6 (rejection has no side effect): an insert call that returns Duplicate,
\* Expired or FullBuffer leaves every slot, read_pos and next_sequence_number
\* as they were, yields nothing and hands out no iterator.
C6_RejectionNoEffect ==
    [][(last'.op = "insert" /\ last'.result \in Rejections) =>
            /\ items' = items
            /\ read_pos' = read_pos
            /\ next_sequence_number' = next_sequence_number
            /\ yielded' = yielded
            /\ iter' = "none"]_vars

\* a rejected insert, another payload for a resident sequence number
C6_Witness ==
    /\ last.op = "insert" /\ last.result = "Duplicate"
    /\ Resident(Cur, last.seq)
    /\ ItemOf(CellOf(Cur, last.seq)) # last.item
    /\ Cur = last.before

\* C7 (idempotence of rejection): an insert call with the arguments of the
\* insert call before it, which returned Inserted, returns Duplicate and
\* leaves slots, read_pos and next_sequence_number unchanged.
C7_RepeatIsDuplicate ==
    (last.op = "insert" /\ last.repeat) =>
        /\ last.result = "Duplicate"
        /\ Cur = last.before

\* the repeated sequence number was delivered by the drain in between
C7_Witness ==
    /\ last.op = "insert" /\ last.repeat
    /\ last.seq < next_sequence_number
    /\ last.seq > 0
    /\ last.result = "Duplicate"

\* the repeated sequence number is still resident
C7_WitnessResident ==
    /\ last.op = "insert" /\ last.repeat
    /\ Resident(Cur, last.seq)
    /\ last.result = "Duplicate"

\* C8 (slot invariant): every occupied slot i holds a sequence number q with
\* q mod N = i inside the window, and no two slots hold the same one.
C8_SlotInvariant ==
    /\ \A i \in Slots : IsSome(items[i]) =>
          /\ SeqOf(items[i]) % N = i
          /\ next_sequence_number <= SeqOf(items[i])
          /\ SeqOf(items[i]) < next_sequence_number + N
    /\ \A i, j \in Slots :
          (IsSome(items[i]) /\ IsSome(items[j]) /\ SeqOf(items[i]) = SeqOf(items[j]))
              => i = j

\* in the middle of a drain, past the first lap of the ring, a slot behind
\* read_pos holds a sequence number of the next lap
C8_Witness ==
    /\ iter = "live" /\ last.op = "next" /\ last.result = "Some"
    /\ next_sequence_number > N
    /\ \E i \in Slots : IsSome(items[i]) /\ i < read_pos

\* C9 (cursor invariant): read_pos = next_sequence_number mod N.
C9_CursorInvariant == read_pos = next_sequence_number % N

\* a drain step took read_pos around the end of the ring
C9_Witness ==
    /\ last.op = "next" /\ last.result = "Some"
    /\ last.before.read_pos = N - 1
    /\ read_pos = 0
    /\ next_sequence_number > N

\* C10 (reset equals fresh construction): reset leaves the buffer as new()
\* creates it, and the count of yields starts again.
C10_ResetIsNew ==
    last.op = "reset" => (Cur = NewBuffer /\ yielded = <<>>)

\* reset of a buffer that had delivered items and still held some
C10_Witness ==
    /\ last.op = "reset"
    /\ last.before.next_sequence_number > 0
    /\ last.before.read_pos > 0
    /\ Occupied(last.before) # {}
    /\ Cur = NewBuffer

\* the window check of the latest insert call was evaluated and its usize
\* addition overflowed
WindowCheckOverflowed ==
    /\ last.op = "insert"
    /\ ~IsSome(last.before.items[NewSlot(last.seq, target)])
    /\ UsizeAddOverflows(AsUsize(last.before.next_sequence_number, target), N, target)

\* C11 (no panic after construction): no insert, drain step or reset panics,
\* and next_sequence_number + N in insert never overflows, also when
\* next_sequence_number is within N of the maximum.
C11_NoPanicNoOverflow == ~panicked /\ ~WindowCheckOverflowed

\* C19 (classification uses the full 64-bit sequence number): also where usize
\* is narrower than u64, insert(s, _) with s >= next_sequence_number + N
\* returns FullBuffer and stores nothing.
C19_FullWidthWindow ==
    (last.op = "insert" /\ last.seq >= last.before.next_sequence_number + N)
        => (last.result = "FullBuffer" /\ Cur = last.before)

\* an item was yielded to the caller in the step
Delivers == last'.op = "next" /\ last'.result = "Some"

\* the iterator was released while items of its run were left: its loop took
\* them (the caller had stopped after j < r of r items)
PartialDrop == last.op = "drop" /\ last.seq > 0

\* C12 (partial consumption is safe): the state an iterator leaves that was
\* released before its run was consumed satisfies the slot invariant and the
\* cursor invariant, and every item delivered after such a release has a
\* sequence number above every one yielded before (in order, none twice).
C12_PartialConsumptionSafe ==
    [][/\ PartialDrop' => (C8_SlotInvariant' /\ C9_CursorInvariant')
       /\ (discarded >= 0 /\ Delivers) =>
              /\ last'.seq > discarded
              /\ \A j \in 1 .. Len(yielded) : yielded[j] < last'.seq]_vars

\* an iterator was released with items of its run left, after earlier yields,
\* and later drains delivered items again
C12_Witness ==
    /\ last.op = "next" /\ last.result = "Some"
    /\ discarded >= 0
    /\ \E j \in 1 .. Len(yielded) : yielded[j] < discarded
    /\ last.seq > discarded + 1

\* the live iterator has returned None
ReturnedNone == iter = "live" /\ last.op = "next" /\ last.result = "None"

\* C13 (drain is finite): an iterator yields at most N items; each yield
\* empties a slot, so no slot is yielded again; after N yields, and after it
\* has returned None, the slot at read_pos is empty, so next() returns None
\* until the next insert.
C13_DrainFinite ==
    [][/\ Len(run') <= N
       /\ Delivers => Cardinality(Occupied(Cur')) < Cardinality(Occupied(Cur))
       /\ (iter' = "live" /\ Len(run') = N) => ~IsSome(items'[read_pos'])
       /\ ReturnedNone' => ~IsSome(items'[read_pos'])]_vars

\* the iterator yielded the whole ring, N items, and then returned None
C13_Witness ==
    /\ ReturnedNone
    /\ Len(run) = N
    /\ read_pos = snap.after.read_pos

\* s lies in the window of b
InWindow(b, s) == b.next_sequence_number <= s /\ s < b.next_sequence_number + N

\* C14 (acceptance condition): insert(s, x) returns Inserted exactly when s
\* lies in the window and is not resident; slot s mod N then holds (s, x).
C14_Acceptance ==
    last.op = "insert" =>
        /\ (last.result = "Inserted") <=>
               (InWindow(last.before, last.seq) /\ ~Resident(last.before, last.seq))
        /\ last.result = "Inserted" => items[last.seq % N] = <<last.seq, last.item>>

\* accepted out of order on a later lap of the ring, beside a resident item
C14_Witness ==
    /\ last.op = "insert" /\ last.result = "Inserted"
    /\ last.seq > last.before.next_sequence_number
    /\ last.seq >= N
    /\ Occupied(last.before) # {}
    /\ items[last.seq % N] = <<last.seq, last.item>>

\* C15 (FullBuffer means beyond the window): insert(s, _) returns FullBuffer
\* exactly when s >= next_sequence_number + N, the slot empty or occupied.
C15_FullBufferIffBeyond ==
    last.op = "insert" =>
        ((last.result = "FullBuffer") <=>
             (last.seq >= last.before.next_sequence_number + N))

\* FullBuffer from the comparison with the occupant of the slot
C15_Witness ==
    /\ last.op = "insert" /\ last.result = "FullBuffer"
    /\ IsSome(last.before.items[last.seq % N])
    /\ last.seq < U64Max

\* the slots the step changes
Changed == {i \in Slots : items'[i] # items[i]}

\* the sequence numbers the step yields
NewYields == {yielded'[j] : j \in (Len(yielded) + 1) .. Len(yielded')}

\* C16 (insert never evicts): an insert call changes at most one slot, from
\* empty to the pair inserted, and leaves read_pos and next_sequence_number;
\* an occupied slot changes only by being emptied, when a drain step yields
\* its item or reset clears it.
C16_InsertNeverEvicts ==
    [][/\ last'.op = "insert" =>
              /\ read_pos' = read_pos
              /\ next_sequence_number' = next_sequence_number
              /\ Cardinality(Changed) <= 1
              /\ \A i \in Changed :
                     items[i] = None /\ items'[i] = <<last'.seq, last'.item>>
       /\ \A i \in Changed : IsSome(items[i]) =>
              /\ items'[i] = None
              /\ \/ last'.op = "reset"
                 \/ last'.op \in {"next", "drop"} /\ SeqOf(items[i]) \in NewYields]_vars

\* an insert stored its pair in an empty slot beside two resident items
C16_Witness ==
    /\ last.op = "insert" /\ last.result = "Inserted"
    /\ Cardinality(Occupied(last.before)) >= 2
    /\ Cardinality(Occupied(Cur)) = Cardinality(Occupied(last.before)) + 1
    /\ \A i \in Occupied(last.before) : items[i] = last.before.items[i]

\* C17 (drop drains the rest): releasing the iterator takes every remaining
\* item of the contiguous run out of the buffer and moves
\* next_sequence_number past them; whenever no iterator is live the slot at
\* read_pos is empty; no later drain yields an item the loop of Drop took.
C17_DropDrainsRest ==
    [][/\ last'.op = "drop" =>
              /\ next_sequence_number' = FirstGap(Cur)
              /\ \A q \in next_sequence_number .. (next_sequence_number' - 1) :
                     q \in NewYields /\ ~Resident(Cur', q)
              /\ last'.seq = next_sequence_number' - next_sequence_number
       /\ iter' = "none" => ~IsSome(items'[read_pos'])
       /\ \A q \in NewYields : q > discarded]_vars

\* the caller took part of a run, the release dropped two more items of it
C17_Witness ==
    /\ last.op = "drop" /\ last.seq >= 2
    /\ Len(run) > last.seq
    /\ discarded = next_sequence_number - 1
    /\ ~IsSome(items[read_pos])

\* the latest insert call was for the sequence number the buffer waited for
InsertedExpected ==
    last.op = "insert" /\ last.seq = last.before.next_sequence_number

\* every sequence number 0 .. MaxSeq was yielded by next(), in order
AllYielded == yielded = [i \in 1 .. (MaxSeq + 1) |-> i - 1]

====
